---------------------------- MODULE Spec2Model ----------------------------
(***************************************************************************)
(* VectorDatabase (VectorDatabase.cpp): an in-memory id -> vector store    *)
(* with top-k and radius search, binary save/load and one mutex.           *)
(*                                                                         *)
(* Floats are modelled in fixed point: a vector component is an integer,   *)
(* a distance is an integer number of 1/FixedPointOne units.               *)
(***************************************************************************)
EXTENDS Integers, Sequences, FiniteSets, TLC

VARIABLES
    dimension_,       \* VectorDatabase::dimension_
    config_,          \* VectorDatabase::config_ (distance_metric, max_vectors)
    vectors_,         \* VectorDatabase::vectors_ : id -> vector
    database_mutex_,  \* VectorDatabase::database_mutex_ : the thread holding it, or NoThread
    files,            \* the file system: path -> file image, or NoFile
    last,             \* the last completed call of the sequential driver: arguments, result, store before
    pc,               \* per thread: where the thread is inside its current call
    frame             \* per thread: the call's arguments and locals

vars == <<dimension_, config_, vectors_, database_mutex_, files, last, pc, frame>>

-----------------------------------------------------------------------------
(* Bounds of the model *)

\* one unit of the fixed-point representation of a float (1.0)
FixedPointOne == 100
\* largest k a search is called with
MaxK == 3
\* largest max_vectors a store is configured with
MaxCapacity == 3
\* largest number of pairs in one insert_batch call
MaxBatch == 2
\* largest sum of squares whose square root is tabulated
MaxSumSq == 25

\* std::numeric_limits<float>::max(), the sentinel distance
FLT_MAX == 2147483647

-----------------------------------------------------------------------------
(* Inputs the callers draw from *)

Ids == {"a", "b", "c"}
EmptyId == ""
V0 == <<0, 0, 0>>
V1 == <<1, 0, 0>>
V2 == <<2, 0, 0>>
ShortVector == <<0, 0>>
StoreVectors == {V0, V1, V2}
CallVectors == StoreVectors \cup {ShortVector}
Metrics == {"EUCLIDEAN", "COSINE", "MANHATTAN", "DOT_PRODUCT"}

NoThread == "none"
\* what a path holds when no file is there
NoFile == [is_file |-> FALSE, dimension |-> 0, vector_count |-> 0, records |-> <<>>]

-----------------------------------------------------------------------------
(* Containers *)

EmptyMap == [x \in {} |-> <<>>]

\* an assignment that keeps the value of a key already present (emplace for operator[])
Put_keeping_existing(m, k, v) ==
    [x \in (DOMAIN m) \cup {k} |-> IF x \in DOMAIN m THEN m[x] ELSE v]

\* std::unordered_map::operator[] assignment, std::map::operator[] assignment
Put(m, k, v) == [x \in (DOMAIN m) \cup {k} |-> IF x = k THEN v ELSE m[x]]

\* std::unordered_map::erase(key)
Erase(m, k) == [x \in (DOMAIN m) \ {k} |-> m[x]]

\* every order in which a container of the elements S can be iterated
Orders(S) == {s \in [1..Cardinality(S) -> S] : \A i, j \in 1..Cardinality(S) : i # j => s[i] # s[j]}

\* a lookup with operator[]: an absent key is created with an empty vector
subscript(m, k) ==
    [found |-> k \in DOMAIN m,
     vectors |-> [x \in (DOMAIN m) \cup {k} |-> IF x \in DOMAIN m THEN m[x] ELSE <<>>]]

\* std::unordered_map::find(key) on the const map: whether the key is there, and
\* the map as the lookup leaves it
find(m, k) == [found |-> k \in DOMAIN m, vectors |-> m]

\* vectors_.size()
size(m) == Cardinality(DOMAIN m)

-----------------------------------------------------------------------------
(* Float arithmetic in fixed point *)

\* std::sqrt on a sum of squares of integer components, rounded down to 1/FixedPointOne
SqrtTable == [n \in 0..MaxSumSq |->
    CHOOSE r \in 0..(FixedPointOne * (n + 1)) :
        /\ r * r <= n * FixedPointOne * FixedPointOne
        /\ (r + 1) * (r + 1) > n * FixedPointOne * FixedPointOne]

Sqrt(n) == SqrtTable[n]

\* std::abs
Abs(x) == IF x < 0 THEN -x ELSE x

\* the accumulation loop "for i in 0..a.size(): sum += term(i)"
RECURSIVE SumTo(_, _)
SumTo(f, n) == IF n = 0 THEN 0 ELSE SumTo(f, n - 1) + f[n]

-----------------------------------------------------------------------------
(* Distance metrics *)

calculateEuclideanDistance(a, b) ==
    IF Len(a) # Len(b) THEN FLT_MAX
    ELSE Sqrt(SumTo([i \in 1..Len(a) |-> (a[i] - b[i]) * (a[i] - b[i])], Len(a)))

calculateCosineDistance(a, b) ==
    IF Len(a) # Len(b) THEN FLT_MAX
    ELSE LET dot_product == SumTo([i \in 1..Len(a) |-> a[i] * b[i]], Len(a))
             norm_a == SumTo([i \in 1..Len(a) |-> a[i] * a[i]], Len(a))
             norm_b == SumTo([i \in 1..Len(a) |-> b[i] * b[i]], Len(a))
         IN  IF norm_a = 0 \/ norm_b = 0 THEN FixedPointOne
             ELSE LET denominator == (Sqrt(norm_a) * Sqrt(norm_b)) \div FixedPointOne
                      cosine_similarity == (dot_product * FixedPointOne * FixedPointOne) \div denominator
                  IN  FixedPointOne - cosine_similarity

\* a Manhattan distance that gives 0 for vectors of different lengths
calculateManhattanDistance_zero_on_mismatch(a, b) ==
    IF Len(a) # Len(b) THEN 0
    ELSE FixedPointOne * SumTo([i \in 1..Len(a) |-> Abs(a[i] - b[i])], Len(a))

calculateManhattanDistance(a, b) ==
    IF Len(a) # Len(b) THEN FLT_MAX
    ELSE FixedPointOne * SumTo([i \in 1..Len(a) |-> Abs(a[i] - b[i])], Len(a))

calculateDotProductDistance(a, b) ==
    IF Len(a) # Len(b) THEN FLT_MAX
    ELSE -(FixedPointOne * SumTo([i \in 1..Len(a) |-> a[i] * b[i]], Len(a)))

calculateDistance(a, b) ==
    CASE config_.distance_metric = "EUCLIDEAN" -> calculateEuclideanDistance(a, b)
      [] config_.distance_metric = "COSINE" -> calculateCosineDistance(a, b)
      [] config_.distance_metric = "MANHATTAN" -> calculateManhattanDistance(a, b)
      [] config_.distance_metric = "DOT_PRODUCT" -> calculateDotProductDistance(a, b)
      [] OTHER -> calculateEuclideanDistance(a, b)

\* a length check that lets shorter vectors through (<= for ==)
validateVector_at_most(vector) == Len(vector) <= dimension_

validateVector(vector) == Len(vector) = dimension_

-----------------------------------------------------------------------------
(* Store operations: what each public method does once it runs alone.       *)
(* Each returns [ret, vectors]: the value returned and the mapping it leaves *)

\* insert with the capacity check off by one (> for >=)
insert_capacity_off_by_one(m, id, vector) ==
    IF ~validateVector(vector) THEN [ret |-> FALSE, vectors |-> m]
    ELSE IF id = EmptyId THEN [ret |-> FALSE, vectors |-> m]
    ELSE IF size(m) > config_.max_vectors THEN [ret |-> FALSE, vectors |-> m]
    ELSE [ret |-> TRUE, vectors |-> Put(m, id, vector)]

\* insert that assigns the whole mapping instead of one key
insert_replacing_store(m, id, vector) ==
    IF ~validateVector(vector) THEN [ret |-> FALSE, vectors |-> m]
    ELSE IF id = EmptyId THEN [ret |-> FALSE, vectors |-> m]
    ELSE IF size(m) >= config_.max_vectors THEN [ret |-> FALSE, vectors |-> m]
    ELSE [ret |-> TRUE, vectors |-> [x \in {id} |-> vector]]

\* VectorDatabase::insert
insert(m, id, vector) ==
    IF ~validateVector(vector) THEN [ret |-> FALSE, vectors |-> m]
    ELSE IF id = EmptyId THEN [ret |-> FALSE, vectors |-> m]
    ELSE IF size(m) >= config_.max_vectors THEN [ret |-> FALSE, vectors |-> m]
    ELSE [ret |-> TRUE, vectors |-> Put(m, id, vector)]

\* insert_batch, the validation loop: some pair is invalid
batch_invalid(batch) ==
    \E id \in DOMAIN batch : ~validateVector(batch[id]) \/ id = EmptyId

\* insert_batch, the capacity check
batch_over_capacity(m, batch) == size(m) + size(batch) > config_.max_vectors

\* insert_batch, the insertion loop over the pairs of the std::map still to be
\* written, in key order
RECURSIVE batch_write(_, _, _)
batch_write(m, batch, order) ==
    IF order = <<>> THEN m
    ELSE batch_write(Put(m, Head(order), batch[Head(order)]), batch, Tail(order))

\* the keys of a std::map in its iteration order (ascending)
KeyOrder(S) == CHOOSE s \in Orders(S) :
    \A i, j \in 1..Cardinality(S) : i < j =>
        LET rank == [x \in {EmptyId} \cup Ids |->
                        CASE x = EmptyId -> 0 [] x = "a" -> 1 [] x = "b" -> 2 [] OTHER -> 3]
        IN rank[s[i]] < rank[s[j]]

\* insert_batch that validates each pair as it inserts it: the pairs before the
\* first invalid one are written
RECURSIVE batch_write_validating(_, _, _)
batch_write_validating(m, batch, order) ==
    IF order = <<>> THEN [ret |-> TRUE, vectors |-> m]
    ELSE IF ~validateVector(batch[Head(order)]) \/ Head(order) = EmptyId
        THEN [ret |-> FALSE, vectors |-> m]
    ELSE batch_write_validating(Put(m, Head(order), batch[Head(order)]), batch, Tail(order))

insert_batch_validating_late(m, batch) ==
    IF batch_over_capacity(m, batch) THEN [ret |-> FALSE, vectors |-> m]
    ELSE batch_write_validating(m, batch, KeyOrder(DOMAIN batch))

\* VectorDatabase::insert_batch
insert_batch(m, batch) ==
    IF batch_invalid(batch) THEN [ret |-> FALSE, vectors |-> m]
    ELSE IF batch_over_capacity(m, batch) THEN [ret |-> FALSE, vectors |-> m]
    ELSE [ret |-> TRUE, vectors |-> batch_write(m, batch, KeyOrder(DOMAIN batch))]

\* remove that looks the id up after it has erased it
remove_reporting_after(m, id) ==
    [ret |-> id \in DOMAIN Erase(m, id), vectors |-> Erase(m, id)]

\* VectorDatabase::remove
remove(m, id) == [ret |-> id \in DOMAIN m, vectors |-> Erase(m, id)]

\* VectorDatabase::clear
clear(m) == EmptyMap

\* VectorDatabase::get_vector
get_vector(m, id) == IF id \in DOMAIN m THEN m[id] ELSE <<>>

\* VectorDatabase::exists
exists(m, id) == id \in DOMAIN m

\* VectorDatabase::get_all_ids: the ids in one of the mapping's iteration orders
get_all_ids(m) == Orders(DOMAIN m)

-----------------------------------------------------------------------------
(* Query engine *)

\* a SearchResult built without its copy of the vector
SearchResult_without_vector(id, distance, vector) ==
    [id |-> id, distance |-> distance, vector |-> <<>>]

\* struct SearchResult
SearchResult(id, distance, vector) == [id |-> id, distance |-> distance, vector |-> vector]

\* SearchResult::operator>
greater(a, b) == a.distance > b.distance

\* std::priority_queue<SearchResult, ..., std::greater<SearchResult>>::top(): an
\* element that the comparator puts before no other one. The queue is held as the
\* set of its elements: no two results of one scan share an id.
Tops(pq) == {t \in pq : \A o \in pq : ~greater(t, o)}

\* the sort lambda with the comparison turned round (descending)
by_distance_descending(a, b) == a.distance > b.distance

\* the lambdas given to std::sort in search and search_radius
by_distance(a, b) == a.distance < b.distance

\* the drained queue returned as it is, without the sort
drained_unsorted(S) == Orders(S)

\* std::sort(results, by_distance): every arrangement of the elements that the
\* comparator leaves in order
std_sort(S) ==
    {s \in Orders(S) : \A i, j \in 1..Cardinality(S) : i < j => ~by_distance(s[j], s[i])}

\* search, the scan loop over the records in iteration order `order`, with the queue
\* pq so far: the set of outcomes [pq, ub], ub when top() was called on an empty queue
RECURSIVE search_scan(_, _, _, _, _)
search_scan(m, query, k, order, pq) ==
    IF order = <<>> THEN {[pq |-> pq, ub |-> FALSE]}
    ELSE LET id == Head(order)
             distance == calculateDistance(query, m[id])
             found == SearchResult(id, distance, m[id])
         IN  IF Cardinality(pq) < k
                 THEN search_scan(m, query, k, Tail(order), pq \cup {found})
             ELSE IF pq = {} THEN {[pq |-> pq, ub |-> TRUE]}
             ELSE UNION {IF distance < t.distance
                             THEN search_scan(m, query, k, Tail(order), (pq \ {t}) \cup {found})
                             ELSE search_scan(m, query, k, Tail(order), pq) : t \in Tops(pq)}

\* search without its validateVector(query) check
search_unvalidated(m, query, k) ==
    IF DOMAIN m = {} THEN {[result |-> <<>>, ub |-> FALSE]}
    ELSE UNION {UNION {IF o.ub THEN {[result |-> <<>>, ub |-> TRUE]}
                       ELSE {[result |-> r, ub |-> FALSE] : r \in std_sort(o.pq)}
                       : o \in search_scan(m, query, k, order, {})}
                : order \in Orders(DOMAIN m)}

\* VectorDatabase::search: the set of outcomes [result, ub] over the iteration orders of
\* the mapping and the ties of the queue and of the sort
search(m, query, k) ==
    IF ~validateVector(query) THEN {[result |-> <<>>, ub |-> FALSE]}
    ELSE IF DOMAIN m = {} THEN {[result |-> <<>>, ub |-> FALSE]}
    ELSE UNION {UNION {IF o.ub THEN {[result |-> <<>>, ub |-> TRUE]}
                       ELSE {[result |-> r, ub |-> FALSE] : r \in std_sort(o.pq)}
                       : o \in search_scan(m, query, k, order, {})}
                : order \in Orders(DOMAIN m)}

\* search_radius with a strict bound (< for <=)
search_radius_exclusive(m, query, radius) ==
    IF ~validateVector(query) THEN {<<>>}
    ELSE std_sort({SearchResult(id, calculateDistance(query, m[id]), m[id]) :
                     id \in {x \in DOMAIN m : calculateDistance(query, m[x]) < radius}})

\* the pairs of vectors that the scan loops of search and search_radius hand to
\* calculateDistance: the query with every stored vector, once the query is valid
scanned(m, query) ==
    IF ~validateVector(query) THEN {} ELSE {<<query, m[id]>> : id \in DOMAIN m}

\* VectorDatabase::search_radius: the set of possible result sequences
search_radius(m, query, radius) ==
    IF ~validateVector(query) THEN {<<>>}
    ELSE std_sort({SearchResult(id, calculateDistance(query, m[id]), m[id]) :
                     id \in {x \in DOMAIN m : calculateDistance(query, m[x]) <= radius}})

-----------------------------------------------------------------------------
(* Persistence codec. A file image is [dimension, vector_count, records]: the two    *)
(* header words and the complete records that follow them, each [id, vector]. A file *)
(* that ends early holds fewer records than vector_count.                            *)

FileImage(dimension, vector_count, records) ==
    [is_file |-> TRUE, dimension |-> dimension, vector_count |-> vector_count,
     records |-> records]

\* paths that std::ofstream / std::ifstream can open (the others are in no directory)
CanOpen(path) == path # "nodir/db"

\* save whose record loop stops one record early
save_one_record_short(m, path, old) ==
    IF ~CanOpen(path) THEN {[ret |-> FALSE, file |-> old]}
    ELSE {[ret |-> TRUE,
           file |-> FileImage(dimension_, size(m),
                              [i \in 1..(size(m) - 1) |-> [id |-> order[i], vector |-> m[order[i]]]])]
          : order \in Orders(DOMAIN m)}

\* VectorDatabase::save: the set of outcomes [ret, file], file the image left at path
save(m, path, old) ==
    IF ~CanOpen(path) THEN {[ret |-> FALSE, file |-> old]}
    ELSE {[ret |-> TRUE,
           file |-> FileImage(dimension_, size(m),
                              [i \in 1..size(m) |-> [id |-> order[i], vector |-> m[order[i]]]])]
          : order \in Orders(DOMAIN m)}

\* std::vector<float> vector(dimension_): value-initialised
ZeroVector == [i \in 1..dimension_ |-> 0]

\* ids that "std::string id(id_length, '\0')" yields once a read has failed and
\* id_length holds an indeterminate value: no characters, or NUL characters only
GarbageIds == {EmptyId, "NUL"}

\* load, the record loop over the records the file holds, in file order
RECURSIVE load_records(_, _)
load_records(m, records) ==
    IF records = <<>> THEN m
    ELSE load_records(Put(m, Head(records).id, Head(records).vector), Tail(records))

\* load, the iterations of the record loop whose reads fail: each stores a
\* value-initialised vector under an id of indeterminate length
load_garbage(m, missing) ==
    IF missing = 0 THEN {m}
    ELSE {[x \in (DOMAIN m) \cup G |-> IF x \in G THEN ZeroVector ELSE m[x]] :
            G \in {H \in SUBSET GarbageIds : H # {} /\ Cardinality(H) <= missing}}

\* load that clears the store before it checks the header's dimension
load_clearing_first(m, path, file) ==
    IF ~CanOpen(path) \/ ~file.is_file THEN {[ret |-> FALSE, vectors |-> m]}
    ELSE IF file.dimension # dimension_ THEN {[ret |-> FALSE, vectors |-> clear(m)]}
    ELSE LET present == IF Len(file.records) < file.vector_count
                            THEN Len(file.records) ELSE file.vector_count
             read == load_records(clear(m), SubSeq(file.records, 1, present))
         IN  {[ret |-> present = file.vector_count, vectors |-> v] :
                v \in load_garbage(read, file.vector_count - present)}

\* load without its vectors_.clear(): the records read are merged into the store
load_merging(m, path, file) ==
    IF ~CanOpen(path) \/ ~file.is_file THEN {[ret |-> FALSE, vectors |-> m]}
    ELSE IF file.dimension # dimension_ THEN {[ret |-> FALSE, vectors |-> m]}
    ELSE LET present == IF Len(file.records) < file.vector_count
                            THEN Len(file.records) ELSE file.vector_count
             read == load_records(m, SubSeq(file.records, 1, present))
         IN  {[ret |-> present = file.vector_count, vectors |-> v] :
                v \in load_garbage(read, file.vector_count - present)}

\* VectorDatabase::load: the set of outcomes [ret, vectors]
load(m, path, file) ==
    IF ~CanOpen(path) \/ ~file.is_file THEN {[ret |-> FALSE, vectors |-> m]}
    ELSE IF file.dimension # dimension_ THEN {[ret |-> FALSE, vectors |-> m]}
    ELSE LET present == IF Len(file.records) < file.vector_count
                            THEN Len(file.records) ELSE file.vector_count
             read == load_records(clear(m), SubSeq(file.records, 1, present))
         IN  {[ret |-> present = file.vector_count, vectors |-> v] :
                v \in load_garbage(read, file.vector_count - present)}

\* verifyDataIntegrity (examples/persistence): sizes match, every id of the
\* original is in the loaded store with a vector equal component by component
verifyDataIntegrity(original_db, loaded_db) ==
    /\ size(original_db) = size(loaded_db)
    /\ \A id \in DOMAIN original_db :
        /\ exists(loaded_db, id)
        /\ Len(get_vector(original_db, id)) = Len(get_vector(loaded_db, id))
        /\ \A i \in 1..Len(get_vector(original_db, id)) :
              get_vector(original_db, id)[i] = get_vector(loaded_db, id)[i]

-----------------------------------------------------------------------------
(* The sequential driver: one caller, one call at a time. Each action is one     *)
(* whole public call; it leaves in `last` the arguments, the value returned and *)
(* the mapping as it was before the call.                                        *)

threadVars == <<database_mutex_, pc, frame>>
configVars == <<dimension_, config_>>

\* the std::map arguments of insert_batch: at most MaxBatch pairs
Batches(keys, vectors) ==
    UNION {[S -> vectors] : S \in {T \in SUBSET keys : Cardinality(T) <= MaxBatch}}

CallInsert(id, vector) ==
    LET r == insert(vectors_, id, vector)
    IN  /\ database_mutex_ = NoThread
        /\ vectors_' = r.vectors
        /\ last' = [op |-> "insert", id |-> id, vector |-> vector, ret |-> r.ret,
                    before |-> vectors_]
        /\ UNCHANGED <<configVars, threadVars, files>>

CallInsertBatch(batch) ==
    LET r == insert_batch(vectors_, batch)
    IN  /\ database_mutex_ = NoThread
        /\ vectors_' = r.vectors
        /\ last' = [op |-> "insert_batch", batch |-> batch, ret |-> r.ret,
                    before |-> vectors_]
        /\ UNCHANGED <<configVars, threadVars, files>>

CallRemove(id) ==
    LET r == remove(vectors_, id)
    IN  /\ database_mutex_ = NoThread
        /\ vectors_' = r.vectors
        /\ last' = [op |-> "remove", id |-> id, ret |-> r.ret, before |-> vectors_]
        /\ UNCHANGED <<configVars, threadVars, files>>

CallClear ==
    /\ database_mutex_ = NoThread
    /\ vectors_' = clear(vectors_)
    /\ last' = [op |-> "clear", before |-> vectors_]
    /\ UNCHANGED <<configVars, threadVars, files>>

\* the call that came just before, for a call that keeps it: its name, and for an
\* insert its arguments and result
Previous ==
    IF last.op = "insert"
        THEN [op |-> "insert", id |-> last.id, vector |-> last.vector, ret |-> last.ret]
        ELSE [op |-> last.op]

CallGetVector(id) ==
    /\ database_mutex_ = NoThread
    /\ last' = [op |-> "get_vector", id |-> id, ret |-> get_vector(vectors_, id),
                before |-> vectors_, after |-> Previous]
    /\ vectors_' = find(vectors_, id).vectors
    /\ UNCHANGED <<configVars, threadVars, files>>

CallExists(id) ==
    /\ database_mutex_ = NoThread
    /\ last' = [op |-> "exists", id |-> id, ret |-> exists(vectors_, id),
                before |-> vectors_]
    /\ vectors_' = find(vectors_, id).vectors
    /\ UNCHANGED <<configVars, threadVars, files>>

CallSize ==
    /\ database_mutex_ = NoThread
    /\ last' = [op |-> "size", ret |-> size(vectors_), before |-> vectors_]
    /\ UNCHANGED <<configVars, threadVars, files, vectors_>>

CallGetAllIds ==
    /\ database_mutex_ = NoThread
    /\ \E ids \in get_all_ids(vectors_) :
          last' = [op |-> "get_all_ids", ret |-> ids, before |-> vectors_]
    /\ UNCHANGED <<configVars, threadVars, files, vectors_>>

CallSearch(query, k) ==
    /\ database_mutex_ = NoThread
    /\ \E o \in search(vectors_, query, k) :
          last' = [op |-> "search", query |-> query, k |-> k, ret |-> o.result,
                   ub |-> o.ub, before |-> vectors_]
    /\ UNCHANGED <<configVars, threadVars, files, vectors_>>

CallSearchRadius(query, radius) ==
    /\ database_mutex_ = NoThread
    /\ \E r \in search_radius(vectors_, query, radius) :
          last' = [op |-> "search_radius", query |-> query, radius |-> radius, ret |-> r,
                   before |-> vectors_]
    /\ UNCHANGED <<configVars, threadVars, files, vectors_>>

CallSave(path) ==
    /\ database_mutex_ = NoThread
    /\ \E o \in save(vectors_, path, files[path]) :
          /\ files' = [files EXCEPT ![path] = o.file]
          /\ last' = [op |-> "save", path |-> path, ret |-> o.ret, before |-> vectors_]
    /\ UNCHANGED <<configVars, threadVars, vectors_>>

CallLoad(path) ==
    /\ database_mutex_ = NoThread
    /\ \E o \in load(vectors_, path, files[path]) :
          /\ vectors_' = o.vectors
          /\ last' = [op |-> "load", path |-> path, ret |-> o.ret, before |-> vectors_]
    /\ UNCHANGED <<configVars, threadVars, files>>

\* testBasicPersistence (examples): original_db.save(filename), then a freshly
\* constructed loaded_db of the same dimension loads filename
testBasicPersistence(path) ==
    /\ database_mutex_ = NoThread
    /\ \E s \in save(vectors_, path, files[path]) :
          /\ files' = [files EXCEPT ![path] = s.file]
          /\ IF ~s.ret
                THEN last' = [op |-> "testBasicPersistence", path |-> path, saved |-> FALSE,
                              loaded |-> FALSE, loaded_db |-> EmptyMap, before |-> vectors_]
                ELSE \E l \in load(EmptyMap, path, s.file) :
                        last' = [op |-> "testBasicPersistence", path |-> path, saved |-> TRUE,
                                 loaded |-> l.ret, loaded_db |-> l.vectors,
                                 before |-> vectors_]
    /\ UNCHANGED <<configVars, threadVars, vectors_>>

\* another program writes or truncates the file at path
WriteFile(path, image) ==
    /\ CanOpen(path)
    /\ files[path] # image
    /\ files' = [files EXCEPT ![path] = image]
    /\ last' = [op |-> "external write"]
    /\ UNCHANGED <<configVars, threadVars, vectors_>>

-----------------------------------------------------------------------------
(* The store alone: every call of the store and of the query engine *)

Radii == {0, FixedPointOne, 2 * FixedPointOne}
BatchVectors == {V1, ShortVector}
Paths == {"db.bin", "nodir/db"}
Threads == {"t1", "t2"}
\* the frame of a thread that has made no call yet
NoCall == [call |-> [op |-> "none"], acquired |-> FALSE, i |-> 0, ret |-> <<>>]

InitWith(capacities, metrics, fs) ==
    /\ dimension_ = Len(V0)
    /\ config_ \in [distance_metric : metrics, max_vectors : capacities]
    /\ vectors_ = EmptyMap
    /\ database_mutex_ = NoThread
    /\ files = fs
    /\ last = [op |-> "none"]
    /\ pc = [t \in Threads |-> "idle"]
    /\ frame = [t \in Threads |-> NoCall]

Init == InitWith(2..MaxCapacity, {"EUCLIDEAN"}, [p \in Paths |-> NoFile])

Next ==
    \/ \E id \in Ids \cup {EmptyId}, vector \in CallVectors : CallInsert(id, vector)
    \/ \E batch \in Batches(Ids \cup {EmptyId}, BatchVectors) : CallInsertBatch(batch)
    \/ \E id \in Ids : CallRemove(id)
    \/ CallClear
    \/ \E id \in Ids : CallGetVector(id)
    \/ \E id \in Ids : CallExists(id)
    \/ CallSize
    \/ CallGetAllIds

Spec == Init /\ [][Next]_vars

-----------------------------------------------------------------------------
(* The query engine: a store filled and emptied by insert, remove and clear, *)
(* searched under each metric                                                 *)

InitQuery == InitWith({MaxCapacity}, Metrics, [p \in Paths |-> NoFile])

NextQuery ==
    \/ \E id \in Ids, vector \in StoreVectors : CallInsert(id, vector)
    \/ \E id \in Ids : CallRemove(id)
    \/ CallClear
    \/ \E query \in CallVectors, k \in 0..MaxK : CallSearch(query, k)
    \/ \E query \in CallVectors, radius \in Radii : CallSearchRadius(query, radius)

SpecQuery == InitQuery /\ [][NextQuery]_vars

-----------------------------------------------------------------------------
(* Radius search in a store of dimension 2, under each metric, with records   *)
(* at distances on both sides of the radius and on it                         *)

RadiusIds == {"p", "q", "r"}
P00 == <<0, 0>>
Q34 == <<3, 4>>
R05 == <<0, 5>>
RadiusVectors == {P00, Q34, R05}
RadiusRadii == {0, 5 * FixedPointOne, 7 * FixedPointOne}

InitRadius ==
    /\ dimension_ = Len(P00)
    /\ config_ \in [distance_metric : Metrics, max_vectors : {MaxCapacity}]
    /\ vectors_ = EmptyMap
    /\ database_mutex_ = NoThread
    /\ files = [p \in Paths |-> NoFile]
    /\ last = [op |-> "none"]
    /\ pc = [t \in Threads |-> "idle"]
    /\ frame = [t \in Threads |-> NoCall]

NextRadius ==
    \/ \E id \in RadiusIds, vector \in RadiusVectors : CallInsert(id, vector)
    \/ \E id \in RadiusIds : CallRemove(id)
    \/ \E query \in RadiusVectors \cup {V0}, radius \in RadiusRadii :
          CallSearchRadius(query, radius)

SpecRadius == InitRadius /\ [][NextRadius]_vars

-----------------------------------------------------------------------------
(* Persistence: a store that is filled, saved and loaded, and files that     *)
(* another program may have written                                           *)

PersistIds == {"a", "b"}
PersistVectors == {V1, V2}

\* files found at a path that this store did not save: a header of another
\* dimension, a file that ends after its first record, a record with no id, and
\* a snapshot of a store with two records
ForeignImages ==
    {FileImage(2, 1, <<[id |-> "a", vector |-> ShortVector]>>),
     FileImage(3, 2, <<[id |-> "b", vector |-> V1]>>),
     FileImage(3, 1, <<[id |-> EmptyId, vector |-> V1]>>),
     FileImage(3, 2, <<[id |-> "a", vector |-> V2], [id |-> "b", vector |-> V2]>>)}

InitPersist == InitWith(1..(MaxCapacity - 1), {"EUCLIDEAN"}, [p \in Paths |-> NoFile])

NextPersist ==
    \/ \E id \in PersistIds, vector \in PersistVectors \cup {ShortVector} :
          CallInsert(id, vector)
    \/ \E batch \in Batches(PersistIds, {V1, ShortVector}) : CallInsertBatch(batch)
    \/ \E id \in PersistIds : CallRemove(id)
    \/ CallClear
    \/ \E path \in Paths : CallSave(path)
    \/ \E path \in Paths : CallLoad(path)
    \/ \E path \in Paths : testBasicPersistence(path)
    \/ \E path \in Paths, image \in ForeignImages : WriteFile(path, image)

SpecPersist == InitPersist /\ [][NextPersist]_vars

-----------------------------------------------------------------------------
(* Lookup in stores of each dimension that the constructor accepts, given      *)
(* vectors of each length from 0 up                                            *)

\* a constructor that accepts every dimension
VectorDatabase_unchecked(dimension) == TRUE

\* VectorDatabase::VectorDatabase: the construction goes through (it throws
\* std::invalid_argument on dimension 0)
VectorDatabase(dimension) == dimension # 0

LookupIds == {"a", "b"}
LookupVectors == {<<>>, <<1>>, ShortVector, V1}

InitLookup ==
    /\ dimension_ \in {dimension \in 0..Len(V0) : VectorDatabase(dimension)}
    /\ config_ \in [distance_metric : {"EUCLIDEAN"}, max_vectors : {MaxCapacity - 1}]
    /\ vectors_ = EmptyMap
    /\ database_mutex_ = NoThread
    /\ files = [p \in Paths |-> NoFile]
    /\ last = [op |-> "none"]
    /\ pc = [t \in Threads |-> "idle"]
    /\ frame = [t \in Threads |-> NoCall]

NextLookup ==
    \/ \E id \in LookupIds, vector \in LookupVectors : CallInsert(id, vector)
    \/ \E batch \in Batches(LookupIds, {<<>>, <<1>>}) : CallInsertBatch(batch)
    \/ \E id \in LookupIds : CallRemove(id)
    \/ CallClear
    \/ \E id \in LookupIds \cup {EmptyId} : CallGetVector(id)
    \/ \E id \in LookupIds \cup {EmptyId} : CallExists(id)
    \/ CallLoad("db.bin")
    \/ \E image \in ForeignImages : WriteFile("db.bin", image)

SpecLookup == InitLookup /\ [][NextLookup]_vars

-----------------------------------------------------------------------------
(* The reading operations: a store filled by insert and emptied by remove, and *)
(* every operation that is declared const called on it                         *)

InitReaders == InitWith({MaxCapacity - 1}, {"EUCLIDEAN"}, [p \in Paths |-> NoFile])

NextReaders ==
    \/ \E id \in PersistIds, vector \in PersistVectors : CallInsert(id, vector)
    \/ \E id \in PersistIds : CallRemove(id)
    \/ \E query \in {V0, ShortVector}, k \in 0..2 : CallSearch(query, k)
    \/ \E query \in {V0, ShortVector}, radius \in Radii : CallSearchRadius(query, radius)
    \/ \E id \in Ids : CallExists(id)
    \/ \E id \in Ids : CallGetVector(id)
    \/ CallGetAllIds
    \/ CallSize
    \/ \E path \in Paths : CallSave(path)

SpecReaders == InitReaders /\ [][NextReaders]_vars

-----------------------------------------------------------------------------
(* The metric evaluator: calculateDistance applied to vectors of equal and of  *)
(* different lengths, and the scans of a store filled by insert and load       *)

\* calculateDistance(a, b) under the store's metric
CallDistance(a, b) ==
    /\ database_mutex_ = NoThread
    /\ last' = [op |-> "calculateDistance", a |-> a, b |-> b, ret |-> calculateDistance(a, b)]
    /\ UNCHANGED <<configVars, threadVars, files, vectors_>>

InitDistance == InitWith({MaxCapacity - 1}, Metrics, [p \in Paths |-> NoFile])

NextDistance ==
    \/ \E a, b \in CallVectors : CallDistance(a, b)
    \/ \E id \in PersistIds, vector \in {V1, ShortVector} : CallInsert(id, vector)
    \/ CallLoad("db.bin")
    \/ \E image \in ForeignImages : WriteFile("db.bin", image)
    \/ \E query \in {V0, ShortVector}, k \in 1..2 : CallSearch(query, k)
    \/ \E query \in {V0, ShortVector} : CallSearchRadius(query, FixedPointOne)

SpecDistance == InitDistance /\ [][NextDistance]_vars

-----------------------------------------------------------------------------
(* The scan of search, one record at a time: `last` holds the search in        *)
(* progress, with its queue and what the last iteration did                    *)

\* one iteration of search's scan loop on the record id with the queue pq: the
\* outcomes [pq, full, top, replaced], top the element that pq.top() gave when the
\* queue was full
scan_iteration(m, query, k, id, pq) ==
    LET distance == calculateDistance(query, m[id])
        found == SearchResult(id, distance, m[id])
    IN  IF Cardinality(pq) < k
            THEN {[pq |-> pq \cup {found}, full |-> FALSE, top |-> found, replaced |-> FALSE]}
            ELSE {[pq |-> IF distance < t.distance THEN (pq \ {t}) \cup {found} ELSE pq,
                   full |-> TRUE, top |-> t, replaced |-> distance < t.distance] :
                  t \in Tops(pq)}

\* a search is in its scan loop
Scanning == last.op = "search scan"

\* search up to its scan loop: the query is valid, the store is not empty, the
\* queue is empty; the mapping will be iterated in the order `order`
BeginScan(query, k, order) ==
    /\ database_mutex_ = NoThread
    /\ ~Scanning
    /\ validateVector(query)
    /\ vectors_ # EmptyMap
    /\ last' = [op |-> "search scan", query |-> query, k |-> k, rest |-> order,
                held |-> {}, pq |-> {}, id |-> "", full |-> FALSE,
                top |-> SearchResult("", 0, <<>>), replaced |-> FALSE]
    /\ UNCHANGED <<configVars, threadVars, files, vectors_>>

\* one iteration of the scan loop; held is the queue as the iteration found it
ScanStep ==
    /\ Scanning
    /\ last.rest # <<>>
    /\ \E o \in scan_iteration(vectors_, last.query, last.k, Head(last.rest), last.pq) :
          last' = [last EXCEPT !.rest = Tail(last.rest), !.held = last.pq, !.pq = o.pq,
                               !.id = Head(last.rest), !.full = o.full, !.top = o.top,
                               !.replaced = o.replaced]
    /\ UNCHANGED <<configVars, threadVars, files, vectors_>>

\* search after its scan loop: the queue is drained, sorted and returned
EndScan ==
    /\ Scanning
    /\ last.rest = <<>>
    /\ \E r \in std_sort(last.pq) :
          last' = [op |-> "search", query |-> last.query, k |-> last.k, ret |-> r,
                   ub |-> FALSE, before |-> vectors_]
    /\ UNCHANGED <<configVars, threadVars, files, vectors_>>

InitScan == InitWith({MaxCapacity}, {"EUCLIDEAN"}, [p \in Paths |-> NoFile])

NextScan ==
    \/ ~Scanning /\ \E id \in Ids, vector \in StoreVectors : CallInsert(id, vector)
    \/ \E k \in 1..(MaxK - 1), order \in Orders(DOMAIN vectors_) : BeginScan(V0, k, order)
    \/ ScanStep
    \/ EndScan

SpecScan == InitScan /\ [][NextScan]_vars

-----------------------------------------------------------------------------
(* Threads: each thread makes one public call at a time; a call is a sequence  *)
(* of steps. pc: "idle" (between calls), "entry" (in the code that precedes    *)
(* the lock_guard), "lock" (at the lock_guard), "locked" (past it, before the  *)
(* body), "writing" (in the write loop of insert_batch or load), "unlock" (at  *)
(* the return, before the lock_guard is destroyed).                            *)

\* search without its lock_guard
LockedOperationsButSearch ==
    {"insert", "insert_batch", "remove", "exists", "get_vector", "get_all_ids", "size",
     "clear", "search_radius", "save", "load"}

\* the twelve operations but insert: insert without its lock_guard
LockedOperationsButInsert ==
    {"insert_batch", "remove", "exists", "get_vector", "get_all_ids", "size",
     "clear", "search", "search_radius", "save", "load"}

\* the operations whose body is preceded by std::lock_guard<std::mutex> lock(database_mutex_)
LockedOperations ==
    {"insert", "insert_batch", "remove", "exists", "get_vector", "get_all_ids", "size",
     "clear", "search", "search_radius", "save", "load"}

\* the operations with code before their lock_guard: insert, search and
\* search_radius validate their arguments, load opens its file
ChecksBeforeLock == {"insert", "search", "search_radius", "load"}

\* the code before the lock_guard lets the call go on
entry_passes(c) ==
    CASE c.op = "insert" -> validateVector(c.vector) /\ c.id # EmptyId
      [] c.op \in {"search", "search_radius"} -> validateVector(c.query)
      [] c.op = "load" -> CanOpen(c.path) /\ files[c.path].is_file
      [] OTHER -> TRUE

\* what the early return gives back
entry_failure(c) == IF c.op \in {"search", "search_radius"} THEN <<>> ELSE FALSE

\* a mutex unlocked by hand on the success path only: insert_batch's early
\* returns leave it locked
unlock_on_success_only(t) ==
    IF database_mutex_ = t /\ ~(frame[t].call.op = "insert_batch" /\ frame[t].ret = FALSE)
        THEN NoThread ELSE database_mutex_

\* a mutex unlocked by hand, but not on load's failure returns
lock_guard_release_but_failed_load(t) ==
    IF database_mutex_ = t /\ ~(frame[t].call.op = "load" /\ frame[t].ret = FALSE)
        THEN NoThread ELSE database_mutex_

\* std::lock_guard's destructor: the mutex after the thread's lock_guard is destroyed
lock_guard_release(t) == IF database_mutex_ = t THEN NoThread ELSE database_mutex_

Invoke(t, c) ==
    /\ pc[t] = "idle"
    /\ pc' = [pc EXCEPT ![t] = IF c.op \in ChecksBeforeLock THEN "entry" ELSE "lock"]
    /\ frame' = [frame EXCEPT ![t] = [call |-> c, acquired |-> FALSE, i |-> 0, ret |-> <<>>]]
    /\ UNCHANGED <<configVars, vectors_, database_mutex_, files, last>>

Entry(t) ==
    /\ pc[t] = "entry"
    /\ IF entry_passes(frame[t].call)
          THEN /\ pc' = [pc EXCEPT ![t] = "lock"]
               /\ UNCHANGED frame
          ELSE /\ pc' = [pc EXCEPT ![t] = "idle"]
               /\ frame' = [frame EXCEPT ![t].ret = entry_failure(frame[t].call),
                                         ![t].call = [op |-> frame[t].call.op]]
    /\ UNCHANGED <<configVars, vectors_, database_mutex_, files, last>>

\* the lock_guard's constructor: blocks until the mutex is free
Acquire(t) ==
    /\ pc[t] = "lock"
    /\ IF frame[t].call.op \in LockedOperations
          THEN /\ database_mutex_ = NoThread
               /\ database_mutex_' = t
               /\ frame' = [frame EXCEPT ![t].acquired = TRUE]
          ELSE UNCHANGED <<database_mutex_, frame>>
    /\ pc' = [pc EXCEPT ![t] = "locked"]
    /\ UNCHANGED <<configVars, vectors_, files, last>>

\* the body is over with result r: on to the return
Finish(t, r) ==
    /\ pc' = [pc EXCEPT ![t] = "unlock"]
    /\ frame' = [frame EXCEPT ![t].ret = r, ![t].i = 0]

BodyInsert(t) ==
    /\ pc[t] = "locked"
    /\ frame[t].call.op = "insert"
    /\ LET r == insert(vectors_, frame[t].call.id, frame[t].call.vector)
       IN  vectors_' = r.vectors /\ Finish(t, r.ret)
    /\ UNCHANGED <<configVars, database_mutex_, files, last>>

\* insert_batch up to its insertion loop: the validation loop and the capacity check
BodyInsertBatch(t) ==
    /\ pc[t] = "locked"
    /\ frame[t].call.op = "insert_batch"
    /\ LET batch == frame[t].call.batch
       IN  IF batch_invalid(batch) \/ batch_over_capacity(vectors_, batch)
               THEN Finish(t, FALSE)
           ELSE IF DOMAIN batch = {} THEN Finish(t, TRUE)
           ELSE /\ pc' = [pc EXCEPT ![t] = "writing"]
                /\ UNCHANGED frame
    /\ UNCHANGED <<configVars, vectors_, database_mutex_, files, last>>

\* one iteration of insert_batch's insertion loop
WriteInsertBatch(t) ==
    /\ pc[t] = "writing"
    /\ frame[t].call.op = "insert_batch"
    /\ LET batch == frame[t].call.batch
           order == KeyOrder(DOMAIN batch)
           id == order[frame[t].i + 1]
       IN  /\ vectors_' = Put(vectors_, id, batch[id])
           /\ IF frame[t].i + 1 = Len(order)
                 THEN Finish(t, TRUE)
                 ELSE /\ frame' = [frame EXCEPT ![t].i = frame[t].i + 1]
                      /\ UNCHANGED pc
    /\ UNCHANGED <<configVars, database_mutex_, files, last>>

BodyRemove(t) ==
    /\ pc[t] = "locked"
    /\ frame[t].call.op = "remove"
    /\ LET r == remove(vectors_, frame[t].call.id)
       IN  vectors_' = r.vectors /\ Finish(t, r.ret)
    /\ UNCHANGED <<configVars, database_mutex_, files, last>>

BodyClear(t) ==
    /\ pc[t] = "locked"
    /\ frame[t].call.op = "clear"
    /\ vectors_' = clear(vectors_)
    /\ Finish(t, TRUE)
    /\ UNCHANGED <<configVars, database_mutex_, files, last>>

\* the bodies of exists, get_vector, get_all_ids, size, search and search_radius
BodyRead(t) ==
    /\ pc[t] = "locked"
    /\ LET c == frame[t].call
       IN  \/ c.op = "exists" /\ Finish(t, exists(vectors_, c.id))
           \/ c.op = "get_vector" /\ Finish(t, get_vector(vectors_, c.id))
           \/ c.op = "size" /\ Finish(t, size(vectors_))
           \/ c.op = "get_all_ids" /\ \E ids \in get_all_ids(vectors_) : Finish(t, ids)
           \/ c.op = "search" /\ \E o \in search(vectors_, c.query, c.k) : Finish(t, o.result)
           \/ c.op = "search_radius"
                /\ \E r \in search_radius(vectors_, c.query, c.radius) : Finish(t, r)
    /\ UNCHANGED <<configVars, vectors_, database_mutex_, files, last>>

BodySave(t) ==
    /\ pc[t] = "locked"
    /\ frame[t].call.op = "save"
    /\ \E o \in save(vectors_, frame[t].call.path, files[frame[t].call.path]) :
          /\ files' = [files EXCEPT ![frame[t].call.path] = o.file]
          /\ Finish(t, o.ret)
    /\ UNCHANGED <<configVars, vectors_, database_mutex_, last>>

\* load from its lock_guard to its record loop: the header check and the clear
BodyLoad(t) ==
    /\ pc[t] = "locked"
    /\ frame[t].call.op = "load"
    /\ LET file == files[frame[t].call.path]
       IN  IF file.dimension # dimension_
               THEN Finish(t, FALSE) /\ UNCHANGED vectors_
           ELSE /\ vectors_' = clear(vectors_)
                /\ IF file.vector_count = 0
                      THEN Finish(t, TRUE)
                      ELSE /\ pc' = [pc EXCEPT ![t] = "writing"]
                           /\ UNCHANGED frame
    /\ UNCHANGED <<configVars, database_mutex_, files, last>>

\* one iteration of load's record loop
WriteLoad(t) ==
    /\ pc[t] = "writing"
    /\ frame[t].call.op = "load"
    /\ LET file == files[frame[t].call.path]
           n == frame[t].i + 1
       IN  /\ IF n <= Len(file.records)
                 THEN vectors_' = Put(vectors_, file.records[n].id, file.records[n].vector)
                 ELSE \E id \in GarbageIds : vectors_' = Put(vectors_, id, ZeroVector)
           /\ IF n = file.vector_count
                 THEN Finish(t, file.vector_count <= Len(file.records))
                 ELSE /\ frame' = [frame EXCEPT ![t].i = n]
                      /\ UNCHANGED pc
    /\ UNCHANGED <<configVars, database_mutex_, files, last>>

\* the return: the lock_guard, if the call has one, is destroyed; the frame keeps
\* the operation's name and what it returned
Return(t) ==
    /\ pc[t] = "unlock"
    /\ database_mutex_' = lock_guard_release(t)
    /\ pc' = [pc EXCEPT ![t] = "idle"]
    /\ frame' = [frame EXCEPT ![t].call = [op |-> frame[t].call.op]]
    /\ UNCHANGED <<configVars, vectors_, files, last>>

\* the calls the threads make
ThreadCalls ==
    {[op |-> "insert", id |-> "a", vector |-> V1],
     [op |-> "insert", id |-> "b", vector |-> ShortVector],
     [op |-> "insert_batch", batch |-> [id \in {"a", "b"} |-> V2]],
     [op |-> "insert_batch", batch |-> [id \in {"b"} |-> ShortVector]],
     [op |-> "remove", id |-> "a"],
     [op |-> "clear"],
     [op |-> "exists", id |-> "b"],
     [op |-> "get_vector", id |-> "a"],
     [op |-> "get_all_ids"],
     [op |-> "size"],
     [op |-> "search", query |-> V0, k |-> 1],
     [op |-> "search", query |-> ShortVector, k |-> 1],
     [op |-> "search_radius", query |-> V0, radius |-> FixedPointOne],
     [op |-> "search_radius", query |-> ShortVector, radius |-> FixedPointOne],
     [op |-> "save", path |-> "db.bin"],
     [op |-> "save", path |-> "nodir/db"],
     [op |-> "load", path |-> "db.bin"],
     [op |-> "load", path |-> "old.bin"],
     [op |-> "load", path |-> "nodir/db"]}

\* the files the threads find: no db.bin yet, and old.bin saved by a store of dimension 2
ThreadFiles ==
    [p \in Paths \cup {"old.bin"} |->
        IF p = "old.bin" THEN FileImage(2, 1, <<[id |-> "a", vector |-> ShortVector]>>)
        ELSE NoFile]

InitThreads == InitWith({MaxCapacity - 1}, {"EUCLIDEAN"}, ThreadFiles)

NextThreads ==
    \E t \in Threads :
        \/ \E c \in ThreadCalls : Invoke(t, c)
        \/ Entry(t)
        \/ Acquire(t)
        \/ BodyInsert(t)
        \/ BodyInsertBatch(t)
        \/ WriteInsertBatch(t)
        \/ BodyRemove(t)
        \/ BodyClear(t)
        \/ BodyRead(t)
        \/ BodySave(t)
        \/ BodyLoad(t)
        \/ WriteLoad(t)
        \/ Return(t)

SpecThreads == InitThreads /\ [][NextThreads]_vars

-----------------------------------------------------------------------------
(* Threads that also call the helpers built on the public operations:          *)
(* insertRandomVectors and insertClusteredVectors build a batch and call       *)
(* insert_batch, benchmark_search calls search num_queries times. pc "compose" *)
(* is the helper's own code, which runs without the lock; the call it makes    *)
(* carries the helper's name, and returns into the helper.                     *)

\* the id "prefix_i" of the i-th generated vector: generated ids are named so that
\* key order is generation order
GeneratedIds(n) == {<<"a", "b", "c">>[i] : i \in 1..n}

InvokeHelper(t, c) ==
    /\ pc[t] = "idle"
    /\ pc' = [pc EXCEPT ![t] = "compose"]
    /\ frame' = [frame EXCEPT ![t] = [call |-> c, acquired |-> FALSE, i |-> 0, ret |-> <<>>]]
    /\ UNCHANGED <<configVars, vectors_, database_mutex_, files, last>>

\* thread t is back in its caller: the frame of the call is gone
HelperReturns(t) ==
    /\ pc' = [pc EXCEPT ![t] = "idle"]
    /\ frame' = [frame EXCEPT ![t] = NoCall]

\* the helper of thread t calls the public operation c
HelperCalls(t, c, at) ==
    /\ pc' = [pc EXCEPT ![t] = at]
    /\ frame' = [frame EXCEPT ![t].call = c]

\* VectorDatabase::insertRandomVectors: count random vectors of the store's
\* dimension, then insert_batch
insertRandomVectors(t) ==
    /\ pc[t] = "compose"
    /\ frame[t].call.op = "insertRandomVectors"
    /\ \E batch \in [GeneratedIds(frame[t].call.count) -> {V1}] :
          HelperCalls(t, [op |-> "insert_batch", batch |-> batch,
                          helper |-> "insertRandomVectors"], "lock")
    /\ UNCHANGED <<configVars, vectors_, database_mutex_, files, last>>

\* VectorDatabase::insertClusteredVectors: false on a center of another length,
\* else vectors_per_cluster vectors around each center, then insert_batch
insertClusteredVectors(t) ==
    /\ pc[t] = "compose"
    /\ frame[t].call.op = "insertClusteredVectors"
    /\ LET c == frame[t].call
       IN  IF \E i \in 1..Len(c.centers) : Len(c.centers[i]) # dimension_
               THEN HelperReturns(t)
               ELSE \E batch \in [GeneratedIds(Len(c.centers) * c.vectors_per_cluster)
                                    -> {V1}] :
                       HelperCalls(t, [op |-> "insert_batch", batch |-> batch,
                                       helper |-> "insertClusteredVectors"], "lock")
    /\ UNCHANGED <<configVars, vectors_, database_mutex_, files, last>>

\* what benchmark_search's vectors_.empty(), read without the lock, can give:
\* the truth, or anything while another thread is inside an operation that writes
empty_unlocked(t) ==
    {vectors_ = EmptyMap} \cup
    (IF \E w \in Threads \ {t} :
            /\ database_mutex_ = w
            /\ frame[w].call.op \in {"insert", "insert_batch", "remove", "clear", "load"}
        THEN BOOLEAN ELSE {})

\* the search that benchmark_search makes with n queries still to run: a random
\* query of the store's dimension, k = 10 (more than any store here holds)
benchmark_query(n) ==
    {[op |-> "search", query |-> q, k |-> MaxK, helper |-> "benchmark_search",
      queries_left |-> n] : q \in {V0}}

\* VectorDatabase::benchmark_search up to its first search
benchmark_search(t) ==
    /\ pc[t] = "compose"
    /\ frame[t].call.op = "benchmark_search"
    /\ \E empty \in empty_unlocked(t) :
          IF empty \/ frame[t].call.num_queries = 0
              THEN HelperReturns(t)
              ELSE \E c \in benchmark_query(frame[t].call.num_queries) :
                      HelperCalls(t, c, "entry")
    /\ UNCHANGED <<configVars, vectors_, database_mutex_, files, last>>

\* the return of a public operation: its lock_guard is destroyed; a search
\* made by benchmark_search with queries still to run is followed by the next
\* one, any other call returns through its helper, if any, to the caller of the
\* thread
ReturnToCaller(t) ==
    /\ pc[t] = "unlock"
    /\ database_mutex_' = lock_guard_release(t)
    /\ LET c == frame[t].call
       IN  IF "queries_left" \in DOMAIN c /\ c.queries_left > 1
               THEN \E next \in benchmark_query(c.queries_left - 1) :
                       HelperCalls(t, next, "entry")
           ELSE HelperReturns(t)
    /\ UNCHANGED <<configVars, vectors_, files, last>>

\* the calls of the public operations that the threads make next to the helpers
LiveCalls ==
    {[op |-> "insert", id |-> "b", vector |-> V1],
     [op |-> "insert_batch", batch |-> [id \in {"b"} |-> ShortVector]],
     [op |-> "remove", id |-> "a"],
     [op |-> "clear"],
     [op |-> "size"],
     [op |-> "search_radius", query |-> ShortVector, radius |-> FixedPointOne],
     [op |-> "save", path |-> "nodir/db"],
     [op |-> "load", path |-> "db.bin"],
     [op |-> "load", path |-> "old.bin"]}

\* the files these threads find: db.bin saved by a store of this dimension with
\* one record, and old.bin saved by a store of dimension 2
LiveFiles ==
    [p \in Paths \cup {"old.bin"} |->
        CASE p = "db.bin" -> FileImage(Len(V0), 1, <<[id |-> "a", vector |-> V1]>>)
          [] p = "old.bin" -> FileImage(2, 1, <<[id |-> "a", vector |-> ShortVector]>>)
          [] OTHER -> NoFile]

InitLive == InitWith({MaxCapacity - 1}, {"EUCLIDEAN"}, LiveFiles)

\* the calls of the helpers
HelperInvocations ==
    {[op |-> "insertRandomVectors", count |-> MaxBatch],
     [op |-> "insertClusteredVectors", centers |-> <<V1>>, vectors_per_cluster |-> 1],
     [op |-> "insertClusteredVectors", centers |-> <<ShortVector>>, vectors_per_cluster |-> 1],
     [op |-> "benchmark_search", num_queries |-> 2]}

\* a step of thread t inside a call, other than the acquisition of the lock
Step(t) ==
    \/ insertRandomVectors(t)
    \/ insertClusteredVectors(t)
    \/ benchmark_search(t)
    \/ Entry(t)
    \/ BodyInsert(t)
    \/ BodyInsertBatch(t)
    \/ WriteInsertBatch(t)
    \/ BodyRemove(t)
    \/ BodyClear(t)
    \/ BodyRead(t)
    \/ BodySave(t)
    \/ BodyLoad(t)
    \/ WriteLoad(t)
    \/ ReturnToCaller(t)

NextLive ==
    \E t \in Threads :
        \/ \E c \in LiveCalls : Invoke(t, c)
        \/ \E c \in HelperInvocations : InvokeHelper(t, c)
        \/ Acquire(t)
        \/ Step(t)

\* the scheduler lets every thread that can take a step take one, and a thread
\* that waits for the mutex gets it when it is released again and again
Fairness ==
    \A t \in Threads : WF_vars(Step(t)) /\ SF_vars(Acquire(t))

SpecLive == InitLive /\ [][NextLive]_vars /\ Fairness

-----------------------------------------------------------------------------
(* Threads that insert at the same time into a store one record short of its  *)
(* capacity. The body of insert is taken in its two steps, the capacity check  *)
(* and the write; `last` holds the race in progress.                           *)

Racing == last.op = "race"

\* every thread calls insert, each with a new id of its own, on a store that
\* holds max_vectors - 1 records
StartRace(ids) ==
    /\ ~Racing
    /\ \A t \in Threads : pc[t] = "idle"
    /\ size(vectors_) = config_.max_vectors - 1
    /\ \A t \in Threads : ids[t] \notin DOMAIN vectors_
    /\ \A t, w \in Threads : t # w => ids[t] # ids[w]
    /\ pc' = [t \in Threads |-> "entry"]
    /\ frame' = [t \in Threads |->
                    [call |-> [op |-> "insert", id |-> ids[t], vector |-> V1],
                     acquired |-> FALSE, i |-> 0, ret |-> <<>>]]
    /\ last' = [op |-> "race", before |-> vectors_]
    /\ UNCHANGED <<configVars, vectors_, database_mutex_, files>>

\* insert, the capacity check
CheckInsert(t) ==
    /\ pc[t] = "locked"
    /\ frame[t].call.op = "insert"
    /\ IF size(vectors_) >= config_.max_vectors
          THEN Finish(t, FALSE)
          ELSE pc' = [pc EXCEPT ![t] = "writing"] /\ UNCHANGED frame
    /\ UNCHANGED <<configVars, vectors_, database_mutex_, files, last>>

\* insert, the write
WriteInsert(t) ==
    /\ pc[t] = "writing"
    /\ frame[t].call.op = "insert"
    /\ vectors_' = Put(vectors_, frame[t].call.id, frame[t].call.vector)
    /\ Finish(t, TRUE)
    /\ UNCHANGED <<configVars, database_mutex_, files, last>>

\* every insert of the race has returned
RaceOver == Racing /\ \A t \in Threads : pc[t] = "idle"

\* the callers go on: the frames of the race are gone
EndRace ==
    /\ RaceOver
    /\ frame' = [t \in Threads |-> NoCall]
    /\ last' = [op |-> "none"]
    /\ UNCHANGED <<configVars, vectors_, database_mutex_, files, pc>>

RaceIds == Ids \cup {"d"}

InitRace == InitWith({MaxCapacity - 1}, {"EUCLIDEAN"}, [p \in Paths |-> NoFile])

NextRace ==
    \/ ~Racing /\ \E id \in RaceIds : CallInsert(id, V2)
    \/ ~Racing /\ \E id \in RaceIds : CallRemove(id)
    \/ \E ids \in [Threads -> RaceIds] : StartRace(ids)
    \/ \E t \in Threads :
          \/ Entry(t)
          \/ Acquire(t)
          \/ CheckInsert(t)
          \/ WriteInsert(t)
          \/ Return(t)
    \/ EndRace

SpecRace == InitRace /\ [][NextRace]_vars

-----------------------------------------------------------------------------
(* Properties of the store (Spec) *)

Min(x, y) == IF x < y THEN x ELSE y

\* a pair that insert and insert_batch are to reject: empty id or wrong length
InvalidPair(id, vector) == id = "" \/ Len(vector) # dimension_

\* C2: an insert of a non-empty id that is already present, with a vector of the
\* store's dimension, succeeds, also when the store holds max_vectors records
C2_UpsertNeverCountsAgainstCapacity ==
    (/\ last.op = "insert"
     /\ ~InvalidPair(last.id, last.vector)
     /\ last.id \in DOMAIN last.before)
    => last.ret = TRUE

\* C3: an all-valid batch is rejected exactly when the distinct ids the store
\* would hold afterwards are more than max_vectors
C3_BatchCapacityCountsDistinctIds ==
    (/\ last.op = "insert_batch"
     /\ \A id \in DOMAIN last.batch : ~InvalidPair(id, last.batch[id]))
    => (last.ret = FALSE <=>
          Cardinality((DOMAIN last.before) \cup (DOMAIN last.batch)) > config_.max_vectors)

\* C5: insert_batch is all-or-nothing: a batch with an invalid pair is rejected,
\* and a rejected batch (invalid or over capacity) leaves the mapping as it was
C5_BatchAllOrNothing ==
    last.op = "insert_batch" =>
        /\ (\E id \in DOMAIN last.batch : InvalidPair(id, last.batch[id])) => last.ret = FALSE
        /\ last.ret = FALSE => vectors_ = last.before

\* C5 witness: a rejected batch that holds an invalid pair next to a valid pair
\* with an id new to the store
C5_Witness ==
    /\ last.op = "insert_batch"
    /\ last.ret = FALSE
    /\ \E id \in DOMAIN last.batch : InvalidPair(id, last.batch[id])
    /\ \E id \in DOMAIN last.batch :
          ~InvalidPair(id, last.batch[id]) /\ id \notin DOMAIN last.before

\* C6: insert rejects, and leaves the mapping as it was, on an empty id, on a
\* vector of another length, and on a new id when the store holds max_vectors records
C6_InsertRejects ==
    (/\ last.op = "insert"
     /\ \/ InvalidPair(last.id, last.vector)
        \/ (last.id \notin DOMAIN last.before
              /\ Cardinality(DOMAIN last.before) >= config_.max_vectors))
    => (last.ret = FALSE /\ vectors_ = last.before)

\* C6 witness: a valid insert of a new id into a full store was rejected
C6_Witness ==
    /\ last.op = "insert"
    /\ last.ret = FALSE
    /\ ~InvalidPair(last.id, last.vector)
    /\ last.id \notin DOMAIN last.before
    /\ Cardinality(DOMAIN vectors_) = config_.max_vectors

\* C19: remove(id) returns true exactly when a record with that id was in the
\* store; afterwards exists(id) is false, size() is one less when it returned true,
\* every other record is as it was; when it returns false the store is unchanged
C19_RemoveDeletesExactlyOne ==
    last.op = "remove" =>
        /\ last.ret = (last.id \in DOMAIN last.before)
        /\ ~exists(vectors_, last.id)
        /\ last.ret = TRUE => size(vectors_) = size(last.before) - 1
        /\ \A id \in (DOMAIN last.before) \ {last.id} :
              id \in DOMAIN vectors_ /\ vectors_[id] = last.before[id]
        /\ DOMAIN vectors_ \subseteq DOMAIN last.before
        /\ last.ret = FALSE => vectors_ = last.before

\* C19 witness: a remove returned true and left another record in the store
C19_Witness ==
    /\ last.op = "remove"
    /\ last.ret = TRUE
    /\ vectors_ # EmptyMap

\* C21: a successful insert(id, v) of an id already in the store overwrites that
\* record in place (same size(), get(id) is v, every other record unchanged); a
\* successful insert of a new id adds one to size() and changes no other record
C21_InsertFrame ==
    (last.op = "insert" /\ last.ret = TRUE) =>
        /\ get_vector(vectors_, last.id) = last.vector
        /\ \A id \in (DOMAIN last.before) \ {last.id} :
              id \in DOMAIN vectors_ /\ vectors_[id] = last.before[id]
        /\ DOMAIN vectors_ = (DOMAIN last.before) \cup {last.id}
        /\ IF last.id \in DOMAIN last.before
              THEN size(vectors_) = size(last.before)
              ELSE size(vectors_) = size(last.before) + 1

\* C21 witness: a successful insert overwrote a record with another vector in a
\* store that holds a second record
C21_Witness ==
    /\ last.op = "insert"
    /\ last.ret = TRUE
    /\ last.id \in DOMAIN last.before
    /\ last.before[last.id] # last.vector
    /\ size(vectors_) >= 2

\* a get_vector(id) issued right after a successful insert(id, v)
GetAfterInsert ==
    /\ last.op = "get_vector"
    /\ last.after.op = "insert"
    /\ last.after.ret = TRUE
    /\ last.after.id = last.id

\* C12: a get(id) issued right after a successful insert(id, v) returns a vector
\* equal to v component by component
C12_GetAfterInsert ==
    GetAfterInsert =>
        /\ Len(last.ret) = Len(last.after.vector)
        /\ \A i \in 1..Len(last.after.vector) : last.ret[i] = last.after.vector[i]

\* C12 witness: a get right after a successful insert into a store that holds
\* another record too, with a vector that is not all zeros
C12_Witness ==
    /\ GetAfterInsert
    /\ Cardinality(DOMAIN vectors_) >= 2
    /\ last.ret = V2

-----------------------------------------------------------------------------
(* Properties of persistence (SpecPersist) *)

\* C4: whenever load returns failure, whatever the reason, the mapping after the
\* call is the mapping before it
C4_LoadFailureLeavesStore ==
    (last.op = "load" /\ last.ret = FALSE) => vectors_ = last.before

\* the file that the last load was given (load leaves the files as they are)
LoadedFile == files[last.path]

\* C13: load returns failure, as a value, and leaves the mapping as it was when
\* the file cannot be opened or when the dimension in its header is not the store's
C13_LoadRejectsUnopenableAndForeign ==
    (/\ last.op = "load"
     /\ \/ ~CanOpen(last.path)
        \/ ~LoadedFile.is_file
        \/ LoadedFile.dimension # dimension_)
    => (last.ret = FALSE /\ vectors_ = last.before)

\* C13 witness: a store that holds records was asked to load a file of another
\* dimension
C13_Witness ==
    /\ last.op = "load"
    /\ CanOpen(last.path)
    /\ LoadedFile.is_file
    /\ LoadedFile.dimension # dimension_
    /\ last.before # EmptyMap

\* the ids of the records of the file that the last load was given
FileIds == {LoadedFile.records[i].id : i \in 1..Len(LoadedFile.records)}

\* C14: after a successful load the mapping is exactly the records of the file
\* (the last one of each id): every record the store held that is not in the file
\* is gone, nothing of the previous content is merged in
C14_LoadReplacesContent ==
    (last.op = "load" /\ last.ret = TRUE) =>
        /\ Len(LoadedFile.records) = LoadedFile.vector_count
        /\ DOMAIN vectors_ = FileIds
        /\ \A i \in 1..Len(LoadedFile.records) :
              (\A j \in (i + 1)..Len(LoadedFile.records) :
                    LoadedFile.records[j].id # LoadedFile.records[i].id)
              => vectors_[LoadedFile.records[i].id] = LoadedFile.records[i].vector
        /\ \A id \in (DOMAIN last.before) \ FileIds : id \notin DOMAIN vectors_

\* C14 witness: a successful load dropped a record that is not in the file and
\* replaced the vector of one that is
C14_Witness ==
    /\ last.op = "load"
    /\ last.ret = TRUE
    /\ \E id \in DOMAIN last.before : id \notin FileIds
    /\ \E id \in (DOMAIN last.before) \cap FileIds : vectors_[id] # last.before[id]

\* C15: in every reachable state, after any sequence of insert, insert_batch,
\* remove, clear and load, every stored vector has the store's dimension
C15_StoredVectorsHaveTheDimension ==
    \A id \in DOMAIN vectors_ : Len(vectors_[id]) = dimension_

\* C15 witness: a store that holds records was given a vector of another length,
\* by insert or in a batch
C15_Witness ==
    /\ vectors_ # EmptyMap
    /\ \/ last.op = "insert" /\ Len(last.vector) # dimension_
       \/ /\ last.op = "insert_batch"
          /\ \E id \in DOMAIN last.batch : Len(last.batch[id]) # dimension_

\* C16: in every reachable state, after any sequence of insert, insert_batch,
\* remove, clear and load of any file whose header dimension is the store's, no
\* record of the store has an empty identifier
C16_NoEmptyIdentifier ==
    EmptyId \notin DOMAIN vectors_

\* C26: in every reachable state, after any sequence of insert, insert_batch,
\* remove, clear and load (also of a file saved by a store with a larger
\* max_vectors), size() is at most the store's max_vectors; stated of every state
\* but those that a load which returned failure has just left
C26_SizeWithinCapacity ==
    ~(last.op = "load" /\ last.ret = FALSE) => size(vectors_) <= config_.max_vectors

\* C9: after a successful save, load of the same path into a freshly constructed
\* store of the same dimension succeeds and yields the same size and the same
\* id -> vector mapping
C9_SaveLoadRoundTrip ==
    (last.op = "testBasicPersistence" /\ last.saved) =>
        /\ last.loaded
        /\ Cardinality(DOMAIN last.loaded_db) = Cardinality(DOMAIN vectors_)
        /\ DOMAIN last.loaded_db = DOMAIN vectors_
        /\ \A id \in DOMAIN vectors_ : last.loaded_db[id] = vectors_[id]
        /\ verifyDataIntegrity(vectors_, last.loaded_db)

\* C9 witness: a store of two records with different vectors was saved and loaded back
C9_Witness ==
    /\ last.op = "testBasicPersistence"
    /\ last.saved
    /\ last.loaded
    /\ \E x, y \in DOMAIN vectors_ : vectors_[x] # vectors_[y]
    /\ DOMAIN last.loaded_db = DOMAIN vectors_

-----------------------------------------------------------------------------
(* Properties of the query engine (SpecQuery) *)

\* the distance the configured metric gives, for the claims
DistanceTo(query, id) == calculateDistance(query, vectors_[id])

ResultIds(result) == {result[i].id : i \in 1..Len(result)}

\* a completed search with a query of the store's dimension and k >= 1
SearchDone ==
    /\ last.op = "search"
    /\ Len(last.query) = dimension_
    /\ last.k >= 1

\* C1: search returns the k nearest records (all of them when k >= size()): no
\* record left out is strictly nearer than a returned one; and with the Euclidean
\* metric and a=[0,0,0], b=[1,0,0], c=[2,0,0], search([0,0,0], 2) returns a then b
C1_SearchReturnsTopK ==
    SearchDone =>
        /\ Len(last.ret) = Min(last.k, Cardinality(DOMAIN vectors_))
        /\ \A out \in (DOMAIN vectors_) \ ResultIds(last.ret) :
              \A i \in 1..Len(last.ret) : ~(DistanceTo(last.query, out) < last.ret[i].distance)
        /\ (/\ config_.distance_metric = "EUCLIDEAN"
            /\ vectors_ = [id \in Ids |-> CASE id = "a" -> V0 [] id = "b" -> V1 [] OTHER -> V2]
            /\ last.query = V0
            /\ last.k = 2)
           => (Len(last.ret) = 2 /\ last.ret[1].id = "a" /\ last.ret[2].id = "b")

\* C10: on a non-empty store the result of search is in non-decreasing order of
\* distance and has exactly min(k, size()) elements
C10_SearchSortedAndSized ==
    (SearchDone /\ vectors_ # EmptyMap) =>
        /\ Len(last.ret) = Min(last.k, Cardinality(DOMAIN vectors_))
        /\ \A i, j \in 1..Len(last.ret) : i < j => last.ret[i].distance <= last.ret[j].distance

\* C10 witness: a search with k below size() returned two results at different distances
C10_Witness ==
    /\ SearchDone
    /\ last.k < Cardinality(DOMAIN vectors_)
    /\ Len(last.ret) >= 2
    /\ last.ret[1].distance < last.ret[2].distance

\* C18: search returns the empty sequence and leaves the store as it was when the
\* query's length is not the store's dimension or when the store is empty;
\* search_radius returns the empty sequence when the query's length is not the
\* store's dimension
C18_QueriesRejectWithEmptyResult ==
    /\ (last.op = "search" /\ (Len(last.query) # dimension_ \/ last.before = EmptyMap))
          => (last.ret = <<>> /\ ~last.ub /\ vectors_ = last.before)
    /\ (last.op = "search_radius" /\ Len(last.query) # dimension_)
          => (last.ret = <<>> /\ vectors_ = last.before)

\* C18 witness: a search with k >= 1 and a query of another length on a store
\* that holds records
C18_Witness ==
    /\ last.op = "search"
    /\ Len(last.query) # dimension_
    /\ last.k >= 1
    /\ last.before # EmptyMap

\* C25: search(query, 0) on a non-empty store, with a query of the store's
\* dimension, returns the empty sequence and never reads or pops the top of an
\* empty queue
C25_SearchZeroIsSafe ==
    (/\ last.op = "search"
     /\ last.k = 0
     /\ Len(last.query) = dimension_
     /\ last.before # EmptyMap)
    => (last.ret = <<>> /\ ~last.ub)

\* C29: on a non-empty store, whatever the iteration order, for a query of the
\* store's dimension and k >= 1, the first element of search(query, k) has the
\* minimum distance to the query over all stored records
C29_FirstResultIsNearest ==
    (SearchDone /\ vectors_ # EmptyMap) =>
        /\ Len(last.ret) >= 1
        /\ last.ret[1].id \in DOMAIN vectors_
        /\ last.ret[1].distance = DistanceTo(last.query, last.ret[1].id)
        /\ \A id \in DOMAIN vectors_ : last.ret[1].distance <= DistanceTo(last.query, id)

\* C29 witness: a search with k = 2 left out a record that is nearer than its
\* second result, and its first result is nearer still
C29_Witness ==
    /\ SearchDone
    /\ last.k = 2
    /\ Len(last.ret) = 2
    /\ \E out \in (DOMAIN vectors_) \ ResultIds(last.ret) :
          /\ DistanceTo(last.query, out) < last.ret[2].distance
          /\ last.ret[1].distance < DistanceTo(last.query, out)

\* C30: every SearchResult returned by search or search_radius names an id that
\* is in the store at the time of the call, carries the vector stored under that
\* id and the distance of that vector to the query, and no id appears twice in
\* one result
C30_ResultsNameStoredRecords ==
    (\/ last.op = "search" /\ ~last.ub
     \/ last.op = "search_radius")
    => /\ \A i \in 1..Len(last.ret) :
             /\ last.ret[i].id \in DOMAIN last.before
             /\ last.ret[i].vector = last.before[last.ret[i].id]
             /\ last.ret[i].distance = calculateDistance(last.query, last.before[last.ret[i].id])
       /\ \A i, j \in 1..Len(last.ret) : i # j => last.ret[i].id # last.ret[j].id

\* C30 witness: a search returned two results that carry different vectors
C30_Witness ==
    /\ last.op = "search"
    /\ Len(last.ret) >= 2
    /\ last.ret[1].vector # last.ret[2].vector

-----------------------------------------------------------------------------
(* Properties of radius search (SpecRadius) *)

\* the stored ids within the radius of the last search_radius, bound included
WithinRadius ==
    {id \in DOMAIN vectors_ : DistanceTo(last.query, id) <= last.radius}

\* C11: search_radius with a query of the store's dimension returns exactly the
\* stored ids at distance <= r, each once and however many they are, in
\* non-decreasing order of distance; with the Manhattan metric and p=[0,0],
\* q=[3,4], search_radius([0,0], 5) returns only p
C11_RadiusReturnsExactlyWithin ==
    (last.op = "search_radius" /\ Len(last.query) = dimension_) =>
        /\ ResultIds(last.ret) = WithinRadius
        /\ Len(last.ret) = Cardinality(WithinRadius)
        /\ \A i \in 1..Len(last.ret) :
              last.ret[i].distance = DistanceTo(last.query, last.ret[i].id)
        /\ \A i, j \in 1..Len(last.ret) : i < j => last.ret[i].distance <= last.ret[j].distance
        /\ (/\ config_.distance_metric = "MANHATTAN"
            /\ vectors_ = [id \in {"p", "q"} |-> IF id = "p" THEN P00 ELSE Q34]
            /\ last.query = P00
            /\ last.radius = 5 * FixedPointOne)
           => ResultIds(last.ret) = {"p"}

\* C11 witness: a radius search returned a record whose distance is the radius
\* itself, after a nearer one, and left a farther record out
C11_Witness ==
    /\ last.op = "search_radius"
    /\ Len(last.query) = dimension_
    /\ Len(last.ret) = 2
    /\ last.ret[1].distance < last.ret[2].distance
    /\ last.ret[2].distance = last.radius
    /\ Cardinality(DOMAIN vectors_) = 3

-----------------------------------------------------------------------------
(* Properties of the threads (SpecThreads) *)

\* thread w is inside insert_batch's insertion loop with some pairs of its batch
\* written and some not
HalfApplied(w) ==
    /\ frame[w].call.op = "insert_batch"
    /\ pc[w] = "writing"
    /\ frame[w].i > 0

\* thread t is about to read the mapping in one of the reading operations
Reading(t) ==
    /\ pc[t] = "locked"
    /\ frame[t].call.op \in
          {"search", "search_radius", "get_vector", "exists", "get_all_ids", "size", "save"}

\* thread t has returned from a call
Returned(t) == pc[t] = "idle" /\ frame[t].call.op # "none"

\* C7: no search, search_radius, get, exists, all_ids, size or save reads the
\* mapping while another thread's insert_batch has written some but not all of
\* its pairs
C7_NoHalfAppliedBatchObserved ==
    \A t, w \in Threads : (t # w /\ Reading(t)) => ~HalfApplied(w)

\* C7 witness: a reading operation waits at its lock_guard while another
\* thread's insert_batch is half applied
C7_Witness ==
    \E t, w \in Threads :
        /\ t # w
        /\ HalfApplied(w)
        /\ pc[t] = "lock"
        /\ frame[t].call.op \in
              {"search", "search_radius", "get_vector", "exists", "get_all_ids", "size", "save"}

\* C8 as stated: every call of the twelve operations acquires the lock, and has
\* released it when it returns
C8_EveryCallAcquiresTheLock ==
    \A t \in Threads :
        /\ Returned(t) => frame[t].acquired
        /\ pc[t] = "idle" => database_mutex_ # t

\* C8 amended: the body of each operation, where the mapping is read or written,
\* runs with the lock held; the lock is released when the call returns, on every
\* exit path; only insert, search, search_radius and load have returns that come
\* before the lock is acquired
C8_LockHeldForTheBody ==
    \A t \in Threads :
        /\ pc[t] \in {"locked", "writing", "unlock"} => database_mutex_ = t
        /\ pc[t] \in {"idle", "entry", "lock"} => database_mutex_ # t
        /\ (Returned(t) /\ ~frame[t].acquired) =>
              frame[t].call.op \in {"insert", "search", "search_radius", "load"}

\* C8 witness: a load returned failure after it had acquired the lock, and the
\* lock is free
C8_Witness ==
    \E t \in Threads :
        /\ Returned(t)
        /\ frame[t].call.op = "load"
        /\ frame[t].acquired
        /\ frame[t].ret = FALSE
        /\ database_mutex_ = NoThread

-----------------------------------------------------------------------------
(* Properties of the reading operations (SpecReaders) *)

ReadingOperations ==
    {"search", "search_radius", "exists", "get_vector", "get_all_ids", "size", "save"}

\* C22: search, search_radius, exists, get, all_ids, size and save never mutate the
\* store: after any such call that returned, with success or failure, the mapping
\* is the mapping before it
C22_ReadersLeaveTheStore ==
    (last.op \in ReadingOperations /\ ~(last.op = "search" /\ last.ub))
        => vectors_ = last.before

\* C22 witness: on a store that holds records, a get of an absent id, or a save
\* that failed, has returned
C22_Witness ==
    /\ vectors_ # EmptyMap
    /\ \/ last.op = "get_vector" /\ last.id \notin DOMAIN last.before
       \/ last.op = "save" /\ last.ret = FALSE

-----------------------------------------------------------------------------
(* Properties of the metric evaluator (SpecDistance) *)

\* C23: each of the four metrics, and calculateDistance under the store's metric,
\* gives the sentinel FLT_MAX for two vectors of different lengths; and the scans
\* of search and search_radius hand calculateDistance only vectors of equal
\* lengths, so that no result carries the sentinel for that reason
C23_SentinelOnMismatchNeverInScans ==
    /\ \A a, b \in CallVectors : Len(a) # Len(b) =>
          /\ calculateEuclideanDistance(a, b) = FLT_MAX
          /\ calculateCosineDistance(a, b) = FLT_MAX
          /\ calculateManhattanDistance(a, b) = FLT_MAX
          /\ calculateDotProductDistance(a, b) = FLT_MAX
    /\ (last.op = "calculateDistance" /\ Len(last.a) # Len(last.b)) => last.ret = FLT_MAX
    /\ last.op \in {"search", "search_radius"} =>
          /\ \A pair \in scanned(last.before, last.query) : Len(pair[1]) = Len(pair[2])
          /\ \A i \in 1..Len(last.ret) : last.ret[i].distance # FLT_MAX

\* C23 witness: under the Manhattan metric, in a store filled by a load,
\* calculateDistance was given vectors of different lengths
C23_Witness ==
    /\ last.op = "calculateDistance"
    /\ Len(last.a) # Len(last.b)
    /\ config_.distance_metric = "MANHATTAN"
    /\ "a" \in DOMAIN vectors_ /\ vectors_["a"] = V2

-----------------------------------------------------------------------------
(* Properties of the scan of search (SpecScan) *)

\* the largest distance among the candidates of the queue pq
LargestHeld(pq) == CHOOSE d \in {c.distance : c \in pq} : \A c \in pq : c.distance <= d

\* C24: during the scan of search(query, k) the queue never holds more than k
\* candidates; when it is full its top is a candidate with the largest distance; a
\* record replaces a held candidate only when the queue is full and the record's
\* distance is smaller than the largest held distance, and the candidate evicted
\* is then one with the largest distance
C24_BoundedHeapEvictsTheLargest ==
    (Scanning /\ last.id # "") =>
        /\ Cardinality(last.pq) <= last.k
        /\ last.full => last.top.distance = LargestHeld(last.held)
        /\ last.replaced =>
              /\ last.full
              /\ Cardinality(last.held) = last.k
              /\ DistanceTo(last.query, last.id) < LargestHeld(last.held)
              /\ last.held \ last.pq = {last.top}
              /\ last.top.distance = LargestHeld(last.held)

-----------------------------------------------------------------------------
(* Properties of lookup (SpecLookup) *)

\* C20: in every reachable state get(id) is the empty sequence exactly when no
\* record with that id is in the store, and exists(id) is false in exactly the
\* same cases: of every id a caller may ask about now, and of the call just made
C20_EmptyResultMeansNotFound ==
    /\ \A id \in LookupIds \cup {EmptyId} :
          /\ (get_vector(vectors_, id) = <<>>) <=> (id \notin DOMAIN vectors_)
          /\ (exists(vectors_, id) = FALSE) <=> (get_vector(vectors_, id) = <<>>)
    /\ last.op = "get_vector" => ((last.ret = <<>>) <=> (last.id \notin DOMAIN vectors_))
    /\ last.op = "exists" => ((last.ret = FALSE) <=> (last.id \notin DOMAIN vectors_))

\* C20 witness: in a store of dimension 1 that holds a record, get of another id
\* returned the empty sequence
C20_Witness ==
    /\ last.op = "get_vector"
    /\ last.ret = <<>>
    /\ dimension_ = 1
    /\ vectors_ # EmptyMap

-----------------------------------------------------------------------------
(* Properties of the threads and the helpers (SpecLive) *)

\* C17: every invoked operation eventually completes: no thread comes to the
\* lock_guard of an operation while it holds the mutex, every thread inside a call
\* is eventually out of it, and every thread that holds the mutex eventually
\* releases it
C17_EveryCallCompletes ==
    /\ [](\A t \in Threads : pc[t] = "lock" => database_mutex_ # t)
    /\ \A t \in Threads : (pc[t] # "idle") ~> (pc[t] = "idle")
    /\ \A t \in Threads : (database_mutex_ = t) ~> (database_mutex_ # t)

\* thread t is at a point of a member function that reads or writes vectors_: in
\* the body of an operation, or at benchmark_search's vectors_.empty()
AccessesMapping(t) ==
    \/ pc[t] \in {"locked", "writing"}
    \/ pc[t] = "compose" /\ frame[t].call.op = "benchmark_search"

\* thread w is in the body of an operation that writes vectors_
WritesMapping(w) ==
    /\ pc[w] \in {"locked", "writing"}
    /\ frame[w].call.op \in {"insert", "insert_batch", "remove", "clear", "load"}

\* C28: every member function that reads or writes the mapping, benchmark_search
\* included, does so only while it holds the store lock, so that no access to the
\* mapping is concurrent with an insert, insert_batch, remove, clear or load of
\* another thread
C28_NoUnlockedAccess ==
    \A t, w \in Threads :
        (t # w /\ AccessesMapping(t) /\ WritesMapping(w)) => database_mutex_ = t

\* C17 witness: a thread waits at the lock_guard of the insert_batch that
\* insertRandomVectors makes while the other thread holds the mutex inside the
\* second search of benchmark_search
C17_Witness ==
    \E t, w \in Threads :
        /\ pc[t] = "lock"
        /\ "helper" \in DOMAIN frame[t].call
        /\ frame[t].call.helper = "insertRandomVectors"
        /\ database_mutex_ = w
        /\ "queries_left" \in DOMAIN frame[w].call
        /\ frame[w].call.queries_left = 1

-----------------------------------------------------------------------------
(* Properties of concurrent inserts (SpecRace) *)

\* C27: when the threads call insert at the same time with distinct new ids on a
\* store that holds max_vectors - 1 records, exactly one insert succeeds and
\* size() never exceeds max_vectors: no thread is between its capacity check and
\* its write while another thread is in the body of its insert
C27_OneConcurrentInsertWins ==
    Racing =>
        /\ size(vectors_) <= config_.max_vectors
        /\ \A t, w \in Threads :
              (t # w /\ pc[t] \in {"locked", "writing", "unlock"})
                  => pc[w] \notin {"locked", "writing", "unlock"}
        /\ RaceOver =>
              /\ Cardinality({t \in Threads : frame[t].ret = TRUE}) = 1
              /\ size(vectors_) = config_.max_vectors
              /\ \A id \in DOMAIN last.before :
                    id \in DOMAIN vectors_ /\ vectors_[id] = last.before[id]

\* C27 witness: the race is over: one insert returned true, the other false
C27_Witness ==
    /\ RaceOver
    /\ last.before # EmptyMap
    /\ \E t, w \in Threads : frame[t].ret = TRUE /\ frame[w].ret = FALSE

=============================================================================
